---- MODULE Spec2Model ----
(***************************************************************************)
(* A model of week1_embeddings/features.py: the two text vectorizers BoW   *)
(* and TfIdf, their fit / transform life cycle and the pure algorithms     *)
(* behind them (whitespace tokenization, occurrence and document counts,   *)
(* top-k selection with Python's stable sort, idf scoring, tf*idf rows).   *)
(*                                                                         *)
(* One behaviour follows one instance, of class cls, through an arbitrary  *)
(* sequence of fit / transform / get_vocabulary calls.                     *)
(*                                                                         *)
(* Texts are sequences of one-character strings; tokens are strings.       *)
(* A real number ln(p/q) is kept exactly, as the reduced fraction <<p, q>>; *)
(* tf * ln(p/q) = ln((p/q)^tf) is kept the same way.                       *)
(***************************************************************************)
EXTENDS Integers, Sequences, FiniteSets, TLC

\* ------------------------------------------------------------------ bounds
MaxDocs == 2
MaxBatch == 1
MaxK == 2

\* ------------------------------------------------------------------ inputs
\* The whitespace characters str.split() cuts at (those the texts use).
Whitespace == {" "}

\* The texts of corpora and batches: "", "a a", " b ", "b  ab".
Texts ==
    { <<>>,
      <<"a", " ", "a">>,
      <<" ", "b", " ">>,
      <<"b", " ", " ", "a", "b">> }

RECURSIVE SeqsUpTo(_, _)
SeqsUpTo(S, n) ==
    IF n = 0 THEN {<<>>}
    ELSE LET shorter == SeqsUpTo(S, n - 1)
         IN  shorter \cup {Append(s, x) : s \in {t \in shorter : Len(t) = n - 1}, x \in S}

Corpora == SeqsUpTo(Texts, MaxDocs)
Batches == SeqsUpTo(Texts, MaxBatch)

\* Python values: None, and a value that is not None.
None == [tag |-> "None"]
Some(v) == [tag |-> "some", val |-> v]

\* k of BoW(k): an int.  k of TfIdf(k=None): an int or None.
BoWKs == {Some(i) : i \in (-1)..MaxK}
TfIdfKs == {None} \cup {Some(i) : i \in (-1)..MaxK}

\* ------------------------------------------------------------------ state
VARIABLES
    cls,        \* the class of the instance: "BoW" or "TfIdf"
    k,          \* self.k
    normalize,  \* self.normalize (TfIdf; FALSE and unused for BoW)
    bow,        \* self.bow: None or Some(sequence of tokens) (BoW)
    idf,        \* self.idf: the ordered mapping, a sequence of [word, val] (TfIdf)
    ret,        \* what the latest call returned or raised
    X_in,       \* the batch of the latest call when it was a transform, else None
    X_fit,      \* the corpus of the latest fit, None before the first one
    refitted    \* TRUE once fit has been called on an instance already fit

vars == <<cls, k, normalize, bow, idf, ret, X_in, X_fit, refitted>>

\* ------------------------------------------------------------------ str
RECURSIVE SplitFrom(_, _, _, _)
SplitFrom(text, i, cur, acc) ==
    IF i > Len(text)
    THEN IF cur = "" THEN acc ELSE Append(acc, cur)
    ELSE IF text[i] \in Whitespace
         THEN SplitFrom(text, i + 1, "", IF cur = "" THEN acc ELSE Append(acc, cur))
         ELSE SplitFrom(text, i + 1, cur \o text[i], acc)

\* text.split(): the maximal runs of non-whitespace characters, in order.
split(text) == SplitFrom(text, 1, "", <<>>)

RECURSIVE join(_)
\* ' '.join(X)
join(X) ==
    IF Len(X) = 0 THEN <<>>
    ELSE IF Len(X) = 1 THEN X[1]
    ELSE X[1] \o <<" ">> \o join(Tail(X))

ToSet(s) == {s[i] : i \in 1..Len(s)}

\* set(' '.join(X).split())
vocab(X) == ToSet(split(join(X)))

\* text.split() of every text of the model, computed once.
SplitOf == [text \in Texts |-> split(text)]

\* The orders in which iterating a set S may yield its elements.
IterationOrders(S) ==
    {s \in [1..Cardinality(S) -> S] : \A i, j \in 1..Cardinality(S) : s[i] = s[j] => i = j}

\* seq[:n] of Python, n an int (a negative n counts from the end).
SliceTo(s, n) ==
    LET m == IF n < 0 THEN (IF Len(s) + n < 0 THEN 0 ELSE Len(s) + n)
             ELSE (IF n > Len(s) THEN Len(s) ELSE n)
    IN  SubSeq(s, 1, m)

RECURSIVE InsertDesc(_, _, _)
\* x put into s, sorted by descending key, after every element whose key is >= key[x].
InsertDesc(s, x, key) ==
    IF Len(s) = 0 THEN <<x>>
    ELSE IF key[Head(s)] >= key[x] THEN <<Head(s)>> \o InsertDesc(Tail(s), x, key)
    ELSE <<x>> \o s

RECURSIVE SortFrom(_, _, _, _)
SortFrom(s, i, key, acc) ==
    IF i > Len(s) THEN acc ELSE SortFrom(s, i + 1, key, InsertDesc(acc, s[i], key))

\* sorted(s, key=lambda x: key[x], reverse=True): stable, so equal keys keep
\* the order they have in s.
sorted_desc(s, key) == SortFrom(s, 1, key, <<>>)

\* ------------------------------------------------------------------ BoW
RECURSIVE CountWords(_, _, _)
\* for word in words: res[word] += 1
CountWords(words, i, res) ==
    IF i > Len(words) THEN res
    ELSE CountWords(words, i + 1, [res EXCEPT ![words[i]] = @ + 1])

RECURSIVE CountTexts(_, _, _)
\* for text in X: for word in text.split(): res[word] += 1
CountTexts(X, i, res) ==
    IF i > Len(X) THEN res
    ELSE CountTexts(X, i + 1, CountWords(SplitOf[X[i]], 1, res))

\* BoW.fit without the [:self.k] slice.
BoW_fit_bow_unsliced(X, order, self_k) ==
    sorted_desc(order, CountTexts(X, 1, [word \in vocab(X) |-> 0]))

\* BoW.fit ranking tokens by the number of documents that hold them.
BoW_fit_bow_by_df(X, order, self_k) ==
    LET df == [w \in vocab(X) |-> Cardinality({d \in 1..Len(X) : w \in ToSet(SplitOf[X[d]])})]
    IN  SliceTo(sorted_desc(order, df), self_k.val)

\* The body of BoW.fit: the new self.bow, order being the iteration order of vocab.
BoW_fit_bow(X, order, self_k) ==
    LET res == CountTexts(X, 1, [word \in vocab(X) |-> 0])
    IN  SliceTo(sorted_desc(order, res), self_k.val)

\* Every <<X, self.bow after fit(X)>>, per k.
BoWFits ==
    [self_k \in BoWKs |->
        UNION {{<<X, BoW_fit_bow(X, order, self_k)>> : order \in IterationOrders(vocab(X))}
               : X \in Corpora}]

RECURSIVE CountKnown(_, _, _, _)
\* for word in words: if word in known: result[word] += 1
CountKnown(words, i, known, result) ==
    IF i > Len(words) THEN result
    ELSE CountKnown(words, i + 1, known,
                    IF words[i] \in known
                    THEN [result EXCEPT ![words[i]] = @ + 1]
                    ELSE result)

\* BoW._text_to_bow marking presence (result[word] = 1) instead of counting.
text_to_bow_binary(text) ==
    [i \in 1..Len(bow.val) |-> IF bow.val[i] \in ToSet(SplitOf[text]) THEN 1 ELSE 0]

\* BoW._text_to_bow: the values of result, in the key order of result (that of self.bow).
text_to_bow(text) ==
    LET words == bow.val
        result == CountKnown(SplitOf[text], 1, ToSet(words), [word \in ToSet(words) |-> 0])
    IN  [i \in 1..Len(words) |-> result[words[i]]]

\* np.stack(rows): an array, or ValueError when there is no row.
stack(rows) ==
    IF Len(rows) = 0 THEN [kind |-> "ValueError"]
    ELSE [kind |-> "array", rows |-> rows]

\* BoW.transform with "assert self.bow": an empty vocabulary is false too.
BoW_transform_ret_truthy(X) ==
    IF bow = None \/ bow = Some(<<>>) THEN [kind |-> "AssertionError"]
    ELSE stack([i \in 1..Len(X) |-> text_to_bow(X[i])])

\* The outcome of BoW.transform(X).
BoW_transform_ret(X) ==
    IF bow = None THEN [kind |-> "AssertionError"]
    ELSE stack([i \in 1..Len(X) |-> text_to_bow(X[i])])

\* ------------------------------------------------------------------ TfIdf
RECURSIVE Gcd(_, _)
Gcd(a, b) == IF b = 0 THEN a ELSE Gcd(b, a % b)

\* np.log(n / d), n, d > 0: the real ln(n/d), as the reduced fraction of n/d.
log_ratio(n, d) == <<n \div Gcd(n, d), d \div Gcd(n, d)>>

RECURSIVE Pow(_, _)
Pow(b, e) == IF e = 0 THEN 1 ELSE b * Pow(b, e - 1)

\* tf * v for a count tf and v = ln(p/q): ln((p/q)^tf).
times(tf, v) == <<Pow(v[1], tf), Pow(v[2], tf)>>

Keys(table) == [i \in 1..Len(table) |-> table[i].word]
ValueOf(table) == [w \in ToSet(Keys(table)) |-> (CHOOSE e \in ToSet(table) : e.word = w).val]

RECURSIVE CountDocs(_, _, _)
\* for text in X: for word in set(text.split()): self.idf[word] += 1
CountDocs(X, i, df) ==
    IF i > Len(X) THEN df
    ELSE CountDocs(X, i + 1,
                   [w \in DOMAIN df |-> IF w \in ToSet(SplitOf[X[i]]) THEN df[w] + 1 ELSE df[w]])

\* if self.k: a Python int is true unless it is 0; None is false.
Truthy(x) == x # None /\ x.val # 0

\* The keys TfIdf.fit keeps, in their final order.
TfIdf_fit_keys(order, df, self_k) ==
    IF Truthy(self_k)
    THEN LET keys == sorted_desc(order, df)
         IN  SelectSeq([i \in 1..Len(keys) |-> [i |-> i - 1, word |-> keys[i]]],
                       LAMBDA e : e.i < self_k.val)
    ELSE [i \in 1..Len(order) |-> [i |-> i - 1, word |-> order[i]]]

\* TfIdf.fit without the +1 in the denominator: ln(N / df).
TfIdf_fit_idf_unsmoothed(X, order, self_k) ==
    LET df == CountDocs(X, 1, [word \in vocab(X) |-> 0])
        kept == TfIdf_fit_keys(order, df, self_k)
    IN  [i \in 1..Len(kept) |->
            [word |-> kept[i].word, val |-> log_ratio(Len(X), df[kept[i].word])]]

\* The body of TfIdf.fit: the new self.idf.
TfIdf_fit_idf(X, order, self_k) ==
    LET N == Len(X)
        df == CountDocs(X, 1, [word \in vocab(X) |-> 0])
        kept == TfIdf_fit_keys(order, df, self_k)
    IN  [i \in 1..Len(kept) |->
            [word |-> kept[i].word, val |-> log_ratio(N, df[kept[i].word] + 1)]]

\* Every <<X, self.idf after fit(X)>>, per k.
TfIdfFits ==
    [self_k \in TfIdfKs |->
        UNION {{<<X, TfIdf_fit_idf(X, order, self_k)>> : order \in IterationOrders(vocab(X))}
               : X \in Corpora}]

\* result /= (np.linalg.norm(result) + EPS): the row divided by its L2 norm plus EPS.
\* Entry i stands for result[i] / (||result|| + EPS).
l2_normalized(result) ==
    [i \in 1..Len(result) |-> [entry |-> result[i], over_norm_plus_EPS_of |-> result]]

\* TfIdf._text_to_tf_idf
text_to_tf_idf(text) ==
    LET keys == Keys(idf)
        value == ValueOf(idf)
        tf == CountKnown(SplitOf[text], 1, ToSet(keys), [word \in ToSet(keys) |-> 0])
        result == [i \in 1..Len(keys) |-> times(tf[keys[i]], value[keys[i]])]
    IN  IF normalize THEN l2_normalized(result) ELSE result

\* The outcome of TfIdf.transform(X): self.idf is never None, so the assert passes.
TfIdf_transform_ret(X) ==
    stack([i \in 1..Len(X) |-> text_to_tf_idf(X[i])])

\* ------------------------------------------------------------------ life cycle
Init ==
    /\ cls \in {"BoW", "TfIdf"}
    /\ k \in (IF cls = "BoW" THEN BoWKs ELSE TfIdfKs)
    /\ normalize \in (IF cls = "BoW" THEN {FALSE} ELSE BOOLEAN)
    /\ bow = None
    /\ idf = <<>>
    /\ ret = [kind |-> "none"]
    /\ X_in = None
    /\ X_fit = None
    /\ refitted = FALSE

BoW_fit ==
    /\ cls = "BoW"
    /\ \E fit \in BoWFits[k] :
          /\ bow' = Some(fit[2])
          /\ X_fit' = Some(fit[1])
    /\ ret' = [kind |-> "self"]
    /\ X_in' = None
    /\ refitted' = (refitted \/ X_fit # None)
    /\ UNCHANGED <<cls, k, normalize, idf>>

BoW_transform ==
    /\ cls = "BoW"
    /\ \E X \in Batches :
          /\ ret' = BoW_transform_ret(X)
          /\ X_in' = Some(X)
    /\ UNCHANGED <<cls, k, normalize, bow, idf, X_fit, refitted>>

BoW_get_vocabulary ==
    /\ cls = "BoW"
    /\ ret' = [kind |-> "value", val |-> bow]
    /\ X_in' = None
    /\ UNCHANGED <<cls, k, normalize, bow, idf, X_fit, refitted>>

\* TfIdf.fit filling the existing self.idf instead of a new mapping: the entries
\* of earlier fits whose words the new corpus lacks stay.
TfIdf_fit_keeping ==
    /\ cls = "TfIdf"
    /\ \E fit \in TfIdfFits[k] :
          /\ idf' = fit[2] \o SelectSeq(idf, LAMBDA e : e.word \notin ToSet(Keys(fit[2])))
          /\ X_fit' = Some(fit[1])
    /\ ret' = [kind |-> "self"]
    /\ X_in' = None
    /\ refitted' = (refitted \/ X_fit # None)
    /\ UNCHANGED <<cls, k, normalize, bow>>

TfIdf_fit ==
    /\ cls = "TfIdf"
    /\ \E fit \in TfIdfFits[k] :
          /\ idf' = fit[2]
          /\ X_fit' = Some(fit[1])
    /\ ret' = [kind |-> "self"]
    /\ X_in' = None
    /\ refitted' = (refitted \/ X_fit # None)
    /\ UNCHANGED <<cls, k, normalize, bow>>

\* TfIdf.transform entering every unknown word of the batch in self.idf, with
\* score 0.0 = ln(1/1), as self.idf.setdefault(word, 0.0) would.
TfIdf_transform_inserting ==
    /\ cls = "TfIdf"
    /\ \E X \in Batches :
          /\ ret' = TfIdf_transform_ret(X)
          /\ X_in' = Some(X)
          /\ idf' = idf \o [i \in 1..Len(split(join(X))) |->
                                [word |-> split(join(X))[i], val |-> <<1, 1>>]]
    /\ UNCHANGED <<cls, k, normalize, bow, X_fit, refitted>>

TfIdf_transform ==
    /\ cls = "TfIdf"
    /\ \E X \in Batches :
          /\ ret' = TfIdf_transform_ret(X)
          /\ X_in' = Some(X)
    /\ UNCHANGED <<cls, k, normalize, bow, idf, X_fit, refitted>>

Next ==
    \/ BoW_fit
    \/ BoW_transform
    \/ BoW_get_vocabulary
    \/ TfIdf_fit
    \/ TfIdf_transform

Spec == Init /\ [][Next]_vars

\* ------------------------------------------------------------------ properties
\* What the properties say of a corpus, from the definitions of the
\* glossary: token, term frequency, document frequency.
TokensOf(text) == ToSet(split(text))

DistinctTokens(X) == UNION {TokensOf(X[d]) : d \in 1..Len(X)}

\* tf: the occurrences of w in one text.
Occurrences(w, text) == Cardinality({j \in 1..Len(split(text)) : split(text)[j] = w})

RECURSIVE SumSeq(_)
SumSeq(s) == IF Len(s) = 0 THEN 0 ELSE Head(s) + SumSeq(Tail(s))

\* The occurrences of w over all documents of X.
GlobalCount(w, X) == SumSeq([d \in 1..Len(X) |-> Occurrences(w, X[d])])

\* df: the documents of X that hold w at least once.
DocFreq(w, X) == Cardinality({d \in 1..Len(X) : w \in TokensOf(X[d])})

Min(a, b) == IF a < b THEN a ELSE b

NoDuplicates(s) == \A i, j \in 1..Len(s) : s[i] = s[j] => i = j

\* v = ln(p/q) >= 0
NonNegative(v) == v[1] >= v[2]

FitDone == X_fit # None
TransformDone == X_in # None

\* The size of the table a transform reads.
TableSize == IF cls = "BoW" THEN Len(bow.val) ELSE Len(idf)

\* C1: transform on an instance never fit fails with the used-before-fit
\* assertion error, for both classes and every batch; it returns no array.
C1_TransformBeforeFitRaises ==
    (~FitDone /\ TransformDone) => ret = [kind |-> "AssertionError"]

\* C2: after BoW.fit(corpus) with k >= 0 the vocabulary has no duplicate token
\* and its length is min(k, number of distinct tokens of the corpus).
C2_VocabularySize ==
    (cls = "BoW" /\ FitDone /\ k.val >= 0) =>
        /\ NoDuplicates(bow.val)
        /\ Len(bow.val) = Min(k.val, Cardinality(DistinctTokens(X_fit.val)))

\* C2 happens both ways: k cuts the vocabulary of one corpus and is larger
\* than the number of distinct tokens of another.
C2_Witness ==
    /\ cls = "BoW" /\ FitDone /\ k.val = 2
    /\ Cardinality(DistinctTokens(X_fit.val)) = 3
    /\ Len(bow.val) = 2

\* C3: after TfIdf.fit the table has at most k entries when k is set (k = 0
\* included) and one entry per distinct token of the corpus when k is None.
\* No table has fewer than 0 entries, so the claim is stated for k >= 0.
C3_TableSize ==
    (cls = "TfIdf" /\ FitDone) =>
        IF k = None
        THEN Len(idf) = Cardinality(DistinctTokens(X_fit.val))
        ELSE k.val >= 0 => Len(idf) <= k.val

\* C4: entry i of a BoW output row is the number of occurrences of the i-th
\* vocabulary token in the text; tokens outside the vocabulary add to no
\* entry and raise nothing, so the row sums to the number of tokens of the
\* text that are in the vocabulary.
C4_BoWRowCounts ==
    (cls = "BoW" /\ FitDone /\ TransformDone /\ Len(X_in.val) > 0) =>
        /\ ret.kind = "array"
        /\ Len(ret.rows) = Len(X_in.val)
        /\ \A r \in 1..Len(X_in.val) :
              LET text == X_in.val[r]
                  row == ret.rows[r]
              IN  /\ Len(row) = Len(bow.val)
                  /\ \A i \in 1..Len(row) : row[i] = Occurrences(bow.val[i], text)
                  /\ SumSeq(row) =
                        Cardinality({j \in 1..Len(split(text)) :
                                        split(text)[j] \in ToSet(bow.val)})

\* C4 happens: the row of a text with a known and an unknown token counts
\* only the known one.
C4_Witness ==
    /\ cls = "BoW" /\ FitDone /\ TransformDone /\ ret.kind = "array"
    /\ \E r \in 1..Len(ret.rows) :
          /\ SumSeq(ret.rows[r]) > 0
          /\ SumSeq(ret.rows[r]) < Len(split(X_in.val[r]))

\* C5: BoW.fit orders the vocabulary by descending global occurrence count,
\* and every corpus token left out counts no more than every token kept.
C5_BoWOrder ==
    (cls = "BoW" /\ FitDone) =>
        LET X == X_fit.val
            kept == bow.val
        IN  /\ \A i, j \in 1..Len(kept) :
                  i < j => GlobalCount(kept[i], X) >= GlobalCount(kept[j], X)
            /\ \A w \in DistinctTokens(X) \ ToSet(kept) : \A i \in 1..Len(kept) :
                  GlobalCount(w, X) <= GlobalCount(kept[i], X)

\* C5 happens: a token kept counts more than a token left out although both
\* are in as many documents.
C5_Witness ==
    /\ cls = "BoW" /\ FitDone
    /\ \E w \in DistinctTokens(X_fit.val) \ ToSet(bow.val) : \E i \in 1..Len(bow.val) :
          /\ GlobalCount(w, X_fit.val) < GlobalCount(bow.val[i], X_fit.val)
          /\ DocFreq(w, X_fit.val) = DocFreq(bow.val[i], X_fit.val)

\* The outcome of calling transform(X) in the current state.
TransformNow(X) == IF cls = "BoW" THEN BoW_transform_ret(X) ELSE TfIdf_transform_ret(X)

\* C6: on a fit instance transform leaves the vocabulary / IDF table (contents
\* and key order), k and normalize unchanged, so the same transform called
\* again returns what it returned, whatever transforms came in between.
C6_TransformFrame ==
    /\ [](TransformDone => ret = TransformNow(X_in.val))
    /\ [][TransformDone' => UNCHANGED <<bow, idf, k, normalize>>]_vars

\* C6 happens: a transform of a text with an unknown token returned a row
\* that is not all zero.
C6_Witness ==
    /\ cls = "TfIdf" /\ FitDone /\ TransformDone /\ ret.kind = "array"
    /\ \E r \in 1..Len(ret.rows) :
          /\ TokensOf(X_in.val[r]) \ ToSet(Keys(idf)) # {}
          /\ \E i \in 1..Len(ret.rows[r]) : ret.rows[r][i] # <<1, 1>>

C8_TopKByDf ==
    (cls = "TfIdf" /\ FitDone) =>
        LET X == X_fit.val
            kept == Keys(idf)
        IN  /\ NoDuplicates(kept)
            /\ ToSet(kept) \subseteq DistinctTokens(X)
            /\ \A i \in 1..Len(idf) :
                  idf[i].val = log_ratio(Len(X), DocFreq(idf[i].word, X) + 1)
            /\ (k # None /\ k.val >= 0) =>
                  /\ Len(kept) = Min(k.val, Cardinality(DistinctTokens(X)))
                  /\ \A w \in DistinctTokens(X) \ ToSet(kept) : \A i \in 1..Len(kept) :
                        DocFreq(w, X) <= DocFreq(kept[i], X)

\* C8 without k = 0, which TfIdf.fit takes for "k is not set".
C8_TopKByDf_PositiveK ==
    (cls = "TfIdf" /\ k # Some(0)) => C8_TopKByDf

\* C9: fit on an empty corpus leaves an empty vocabulary / IDF table, and
\* every later transform of a non-empty batch returns one row per text, each
\* of width 0.
C9_EmptyCorpus ==
    X_fit = Some(<<>>) =>
        /\ IF cls = "BoW" THEN bow = Some(<<>>) ELSE idf = <<>>
        /\ (TransformDone /\ Len(X_in.val) > 0) =>
              /\ ret.kind = "array"
              /\ Len(ret.rows) = Len(X_in.val)
              /\ \A r \in 1..Len(ret.rows) : Len(ret.rows[r]) = 0

\* C9 happens: a BoW fit on the empty corpus transformed a text that has tokens.
C9_Witness ==
    /\ cls = "BoW" /\ X_fit = Some(<<>>) /\ TransformDone
    /\ Len(X_in.val) > 0
    /\ TokensOf(X_in.val[1]) # {}

\* C10: after any sequence of fit and transform calls the table is one that a
\* new instance with the same k gets from the corpus of the latest fit alone:
\* no token and no count of an earlier fit is left in it, and the rows a
\* transform returns are as wide as that table.
C10_LatestFitDecides ==
    FitDone =>
        /\ IF cls = "BoW"
           THEN /\ <<X_fit.val, bow.val>> \in BoWFits[k]
                /\ ToSet(bow.val) \subseteq DistinctTokens(X_fit.val)
           ELSE /\ <<X_fit.val, idf>> \in TfIdfFits[k]
                /\ ToSet(Keys(idf)) \subseteq DistinctTokens(X_fit.val)
                /\ \A i \in 1..Len(idf) :
                      idf[i].val =
                          log_ratio(Len(X_fit.val), DocFreq(idf[i].word, X_fit.val) + 1)
        /\ (TransformDone /\ ret.kind = "array") =>
              \A r \in 1..Len(ret.rows) : Len(ret.rows[r]) = TableSize

\* C10 happens: a transform after a second fit, on a table that lacks a token
\* of the batch.
C10_Witness ==
    /\ cls = "TfIdf" /\ refitted /\ TransformDone /\ ret.kind = "array"
    /\ Len(idf) > 0
    /\ TokensOf(X_in.val[1]) \ ToSet(Keys(idf)) # {}

====
